---------------------------- MODULE Spec2Model ----------------------------
(***************************************************************************)
(* A model of the concurrent task runner of src/src/main.rs.               *)
(*                                                                         *)
(* The process loads runner.json (Runner::init), parses the command line   *)
(* and dispatches at most one batch (run_all or build_all).  A batch       *)
(* spawns one tokio task ("unit") per task definition into a JoinSet,      *)
(* installs the Ctrl-C handler, joins every unit and cancels the token.    *)
(* Each unit sleeps one second and then races, with tokio::select!, the    *)
(* token's cancelled() future against run_task_inner, which starts the     *)
(* subshell and awaits its output.                                         *)
(*                                                                         *)
(* The environment is: the content of the configuration file, the          *)
(* subcommand, the interrupt (SIGINT), whether a subshell can be started,  *)
(* when a started subshell exits, and the branch at which select! starts   *)
(* polling (tokio picks it at random on every poll).                       *)
(***************************************************************************)
EXTENDS Naturals, Sequences, FiniteSets

\* Longest "tasks" array and longest "builds" array of the configuration
\* documents that are explored.
MaxTasks == 2
MaxBuilds == 1

\* struct Task {name, cmd}.  "true" exits 0 and "false" exits 1 under sh -c.
TaskDefs ==
    { [name |-> "a", cmd |-> "true"], [name |-> "b", cmd |-> "false"] }

SeqsUpTo(S, n) == UNION { [1..k -> S] : k \in 0..n }

\* Option<Vec<Task>>
None == [some |-> FALSE, items |-> <<>>]
Some(v) == [some |-> TRUE, items |-> v]
OptionSeqs(S, n) == {None} \cup { Some(v) : v \in SeqsUpTo(S, n) }

\* What File::open + serde_json::from_reader meet at runner.json.
Files ==
    { [state |-> st, tasks |-> None, builds |-> None] : st \in {"missing", "malformed"} }
    \cup
    { [state |-> "ok", tasks |-> t, builds |-> b] :
         t \in OptionSeqs(TaskDefs, MaxTasks), b \in OptionSeqs(TaskDefs, MaxBuilds) }

\* enum Commands and the Option around it in struct Cli.
Commands == {"Run", "R", "Build", "None"}

VARIABLES
    file,        \* runner.json as the process finds it
    command,     \* cli.command
    runner,      \* the InternalRunner of main, once Runner::init returned Ok
    pcMain,      \* position of main / run_all / build_all
    batch,       \* "none", "run" (run_all) or "build" (build_all)
    next,        \* index of the next task the fan-out loop hands to run_task
    units,       \* the tokio tasks spawned by run_task, in spawn order
    set,         \* JoinSet: indices of the units not yet returned by join_next
    token,       \* CancellationToken: is it cancelled
    handlers,    \* number of ctrlc::set_handler calls made
    interrupted  \* has the Ctrl-C handler run

vars ==
    << file, command, runner, pcMain, batch, next, units, set, token, handlers,
       interrupted >>

Terminal == {"Succeeded", "Failed", "Cancelled", "Panicked"}
Outcomes == {"Succeeded", "Failed", "Cancelled"}

-----------------------------------------------------------------------------
(* Runner::init and main's dispatch                                        *)

\* A loader that falls back to an empty document when parsing fails.
InitRunnerLenient(f) == f.state # "missing"

\* Runner::init_runner: Err when the file cannot be opened or parsed.
InitRunnerOk(f) == f.state = "ok"

NoRunner == [loaded |-> FALSE, tasks |-> None, builds |-> None]

\* Runner::init: wraps both optional groups, or fails.
RunnerInitResult(f) ==
    IF InitRunnerOk(f)
    THEN [loaded |-> TRUE, tasks |-> f.tasks, builds |-> f.builds]
    ELSE NoRunner

\* The alias dispatched to the wrong entry point.
BatchOfAliasSlip(c) ==
    CASE c = "R" -> "build"
      [] c = "Run" -> "run"
      [] c = "Build" -> "build"
      [] OTHER -> "none"

\* The entry point main's match selects for a subcommand.
BatchOf(c) ==
    CASE c = "R" -> "run"
      [] c = "Run" -> "run"
      [] c = "Build" -> "build"
      [] OTHER -> "none"

\* A batch that falls back to the other group when its own is absent.
GroupOfFallback(r, b) ==
    LET g == IF b = "run" THEN r.tasks ELSE r.builds
        h == IF b = "run" THEN r.builds ELSE r.tasks
    IN  IF g.some THEN g.items ELSE h.items

\* The group a batch iterates: self.tasks in run_all, self.builds in build_all;
\* `if let Some(..)` skips an absent group.
GroupOf(r, b) ==
    LET g == IF b = "run" THEN r.tasks ELSE r.builds
    IN  IF g.some THEN g.items ELSE <<>>

Init ==
    /\ file \in Files
    /\ command \in Commands
    /\ runner = NoRunner
    /\ pcMain = "start"
    /\ batch = "none"
    /\ next = 1
    /\ units = <<>>
    /\ set = {}
    /\ token = FALSE
    /\ handlers = 0
    /\ interrupted = FALSE

\* main, line 185: Runner::init().  On Err main falls through and returns.
RunnerInit ==
    /\ pcMain = "start"
    /\ runner' = RunnerInitResult(file)
    /\ pcMain' = IF runner'.loaded THEN "parse" ELSE "exited"
    /\ UNCHANGED << file, command, batch, next, units, set, token, handlers,
                    interrupted >>

\* main, lines 186-198: a subcommand enters run_all or build_all, which create
\* the token and the JoinSet.
DispatchBatch ==
    /\ pcMain = "parse"
    /\ BatchOf(command) # "none"
    /\ batch' = BatchOf(command)
    /\ pcMain' = "fanout"
    /\ next' = 1
    /\ units' = <<>>
    /\ set' = {}
    /\ token' = FALSE
    /\ UNCHANGED << file, command, runner, handlers, interrupted >>

\* main, lines 199-201: no subcommand.
DispatchNone ==
    /\ pcMain = "parse"
    /\ BatchOf(command) = "none"
    /\ pcMain' = "exited"
    /\ UNCHANGED << file, command, runner, batch, next, units, set, token,
                    handlers, interrupted >>

-----------------------------------------------------------------------------
(* run_all / build_all: fan-out, handler, join                             *)

\* The future run_task hands to set.spawn, before its first poll completes the
\* sleep: nothing started, nothing reported.
NewUnit(t) ==
    [task |-> t, st |-> "Pending", spawns |-> 0, proc |-> "none", reports |-> 0]

\* A fan-out that installs the Ctrl-C handler inside the loop, once per task.
SpawnUnitInstalling ==
    /\ pcMain = "fanout"
    /\ next <= Len(GroupOf(runner, batch))
    /\ units' = Append(units, NewUnit(GroupOf(runner, batch)[next]))
    /\ set' = set \cup {Len(units) + 1}
    /\ next' = next + 1
    /\ handlers' = handlers + 1
    /\ UNCHANGED << file, command, runner, pcMain, batch, token, interrupted >>

\* A fan-out whose run_task awaits the unit instead of spawning it: the next
\* unit is launched only once the earlier ones have ended.
SpawnUnitAwaiting ==
    /\ pcMain = "fanout"
    /\ next <= Len(GroupOf(runner, batch))
    /\ \A u \in 1..Len(units) : units[u].st \in Terminal
    /\ units' = Append(units, NewUnit(GroupOf(runner, batch)[next]))
    /\ set' = set \cup {Len(units) + 1}
    /\ next' = next + 1
    /\ UNCHANGED << file, command, runner, pcMain, batch, token, handlers,
                    interrupted >>

\* Lines 38-41 / 64-67: one run_task call per task of the group, in order.
\* run_task only spawns, so the loop never waits for a unit.
SpawnUnit ==
    /\ pcMain = "fanout"
    /\ next <= Len(GroupOf(runner, batch))
    /\ units' = Append(units, NewUnit(GroupOf(runner, batch)[next]))
    /\ set' = set \cup {Len(units) + 1}
    /\ next' = next + 1
    /\ UNCHANGED << file, command, runner, pcMain, batch, token, handlers,
                    interrupted >>

\* Lines 44-48 / 70-74: ctrlc::set_handler, after the loop.
InstallHandler ==
    /\ pcMain = "fanout"
    /\ next > Len(GroupOf(runner, batch))
    /\ handlers' = handlers + 1
    /\ pcMain' = "join"
    /\ UNCHANGED << file, command, runner, batch, next, units, set, token,
                    interrupted >>

\* A join that takes a unit as soon as it has begun its race.
FinishedEarly(un) == un.st # "Pending"

\* JoinSet::join_next yields a unit only once its future has finished, by
\* returning or by panicking.
Finished(un) == un.st \in Terminal

\* A join loop that stops while one unit is still in the set.
JoinSetDrainedEarly(s) == Cardinality(s) <= 1

\* join_next returns None, which ends the `while let`, on an empty set.
JoinSetDrained(s) == s = {}

\* Line 50 / 76: one iteration of the join loop.
JoinNext(u) ==
    /\ pcMain = "join"
    /\ u \in set
    /\ Finished(units[u])
    /\ set' = set \ {u}
    /\ UNCHANGED << file, command, runner, pcMain, batch, next, units, token,
                    handlers, interrupted >>

\* Lines 50-54 / 76-80: the loop ends, the engine cancels its own clone of the
\* token and the batch call returns.
JoinDone ==
    /\ pcMain = "join"
    /\ JoinSetDrained(set)
    /\ token' = TRUE
    /\ pcMain' = "returned"
    /\ UNCHANGED << file, command, runner, batch, next, units, set, handlers,
                    interrupted >>

\* main returns after the batch call.
MainExit ==
    /\ pcMain = "returned"
    /\ pcMain' = "exited"
    /\ UNCHANGED << file, command, runner, batch, next, units, set, token,
                    handlers, interrupted >>

-----------------------------------------------------------------------------
(* The interrupt                                                           *)

Alive == pcMain \notin {"exited", "killed"}

\* SIGINT while no handler is installed: the default disposition ends the
\* process, and every unit with it.
InterruptDefault ==
    /\ Alive
    /\ handlers = 0
    /\ pcMain' = "killed"
    /\ UNCHANGED << file, command, runner, batch, next, units, set, token,
                    handlers, interrupted >>

\* Lines 44-47 / 70-73: the handler prints and cancels the token.
InterruptHandled ==
    /\ Alive
    /\ handlers > 0
    /\ token' = TRUE
    /\ interrupted' = TRUE
    /\ UNCHANGED << file, command, runner, pcMain, batch, next, units, set,
                    handlers >>

-----------------------------------------------------------------------------
(* One unit: lines 89-103 and run_task_inner                               *)

\* sh -c <cmd>: the exit status of the command.
ExitStatus(cmd) == IF cmd = "true" THEN 0 ELSE 1

\* The two arms of the status test swapped.
OutcomeOfInverted(status) == IF status = 0 THEN "Failed" ELSE "Succeeded"

\* Lines 120-127: output.status.success() selects the report.
OutcomeOf(status) == IF status = 0 THEN "Succeeded" ELSE "Failed"

\* A unit that waits on a token of its own instead of a clone of the batch's.
CancelledNever(tok) == FALSE

\* Line 94: cancelled() is ready exactly when the token is cancelled.
CancelledReady(tok) == tok

\* The Command built without kill_on_drop: a dropped Child keeps running.
DropInnerNoKill(un) == un

\* kill_on_drop(true), line 111: dropping the run_task_inner future drops the
\* Child it awaits, which kills a subshell that still runs.
DropInner(un) ==
    [un EXCEPT !.proc = IF un.proc = "running" THEN "killed" ELSE un.proc]

\* The cancellation arm without its `break`: the loop goes back to the sleep.
CancelBranchNoBreak(un) ==
    [DropInner(un) EXCEPT !.st = "Pending", !.reports = un.reports + 1]

\* Lines 94-97: the cancellation branch wins; the other branch is dropped.
CancelBranch(un) ==
    [DropInner(un) EXCEPT !.st = "Cancelled", !.reports = un.reports + 1]

\* What the first poll of run_task_inner can meet: the first spawn fails, the
\* spawn inside output() fails, the subshell is still running when the await
\* polls it, or it has exited by then.
StartResults == {"spawn_failed", "output_failed", "running", "exited"}

\* One poll of run_task_inner.  The first poll runs lines 108-118 up to the
\* await: a first subshell is spawned and its Child dropped at the end of the
\* statement (killed), then output() spawns the subshell that is awaited;
\* either spawn can fail, and expect() then panics.  Later polls only look at
\* the awaited subshell.
InnerPoll(un, start) ==
    IF un.spawns = 0
    THEN CASE start = "spawn_failed" -> [res |-> "panic", un |-> un]
           [] start = "output_failed" ->
                 [res |-> "panic", un |-> [un EXCEPT !.spawns = 1]]
           [] start = "exited" ->
                 [res |-> "ready", un |-> [un EXCEPT !.spawns = 2, !.proc = "exited"]]
           [] OTHER ->
                 [res |-> "pending", un |-> [un EXCEPT !.spawns = 2, !.proc = "running"]]
    ELSE [res |-> IF un.proc = "exited" THEN "ready" ELSE "pending", un |-> un]

\* Lines 98-100 with 120-127: run_task_inner returned, having printed the
\* report for the exit status.
InnerBranch(un) ==
    [un EXCEPT !.st = OutcomeOf(ExitStatus(un.task.cmd)), !.reports = un.reports + 1]

\* A panic unwinds the unit's future; tokio keeps it for join_next.
PanicBranch(un) == [un EXCEPT !.st = "Panicked"]

\* The branches tokio::select! may poll first.
Branches == {"cancel", "inner"}

\* run_task_inner awaited on its own, without the race against the signal.
SelectPollInnerOnly(un, tok, first, start) ==
    LET in == InnerPoll(un, start)
    IN  IF in.res = "ready" THEN InnerBranch(in.un)
        ELSE IF in.res = "panic" THEN PanicBranch(in.un)
        ELSE in.un

\* Lines 93-101: one poll of select!, starting at branch `first`; the first
\* ready branch wins and the loop breaks.
SelectPoll(un, tok, first, start) ==
    LET in == InnerPoll(un, start)
    IN  IF first = "cancel" /\ CancelledReady(tok) THEN CancelBranch(un)
        ELSE IF in.res = "ready" THEN InnerBranch(in.un)
        ELSE IF in.res = "panic" THEN PanicBranch(in.un)
        ELSE IF CancelledReady(tok) THEN CancelBranch(in.un)
        ELSE in.un

\* Lines 91-92: the one-second sleep elapses and the race begins.
UnitWake(u) ==
    /\ Alive
    /\ u \in 1..Len(units)
    /\ units[u].st = "Pending"
    /\ units' = [units EXCEPT ![u].st = "Running"]
    /\ UNCHANGED << file, command, runner, pcMain, batch, next, set, token,
                    handlers, interrupted >>

\* An edge-triggered signal: the unit that sees the cancellation consumes it.
UnitPollConsuming(u) ==
    /\ Alive
    /\ u \in 1..Len(units)
    /\ units[u].st = "Running"
    /\ units[u].spawns = 0 \/ token \/ units[u].proc = "exited"
    /\ \E first \in Branches,
          start \in IF units[u].spawns = 0 THEN StartResults ELSE {"running"} :
          units' = [units EXCEPT ![u] = SelectPoll(units[u], token, first, start)]
    /\ token' = IF units'[u].st = "Cancelled" THEN FALSE ELSE token
    /\ UNCHANGED << file, command, runner, pcMain, batch, next, set,
                    handlers, interrupted >>

\* The racing unit is polled: for the first time, or woken by the token or by
\* the exit of its subshell.
UnitPoll(u) ==
    /\ Alive
    /\ u \in 1..Len(units)
    /\ units[u].st = "Running"
    /\ units[u].spawns = 0 \/ token \/ units[u].proc = "exited"
    /\ \E first \in Branches,
          start \in IF units[u].spawns = 0 THEN StartResults ELSE {"running"} :
          units' = [units EXCEPT ![u] = SelectPoll(units[u], token, first, start)]
    /\ UNCHANGED << file, command, runner, pcMain, batch, next, set, token,
                    handlers, interrupted >>

\* The awaited subshell exits.
ProcExit(u) ==
    /\ Alive
    /\ u \in 1..Len(units)
    /\ units[u].proc = "running"
    /\ units' = [units EXCEPT ![u].proc = "exited"]
    /\ UNCHANGED << file, command, runner, pcMain, batch, next, set, token,
                    handlers, interrupted >>

-----------------------------------------------------------------------------
UnitIds == 1..(MaxTasks + MaxBuilds)

Next ==
    \/ RunnerInit
    \/ DispatchBatch
    \/ DispatchNone
    \/ SpawnUnit
    \/ InstallHandler
    \/ \E u \in UnitIds : JoinNext(u)
    \/ JoinDone
    \/ MainExit
    \/ InterruptDefault
    \/ InterruptHandled
    \/ \E u \in UnitIds : UnitWake(u)
    \/ \E u \in UnitIds : UnitPoll(u)
    \/ \E u \in UnitIds : ProcExit(u)

Spec == Init /\ [][Next]_vars

\* The tokio runtime polls every woken task and timers elapse; main's own
\* steps are taken.  Nothing obliges a subshell to exit or an interrupt to
\* arrive.
Progress ==
    \/ RunnerInit
    \/ DispatchBatch
    \/ DispatchNone
    \/ SpawnUnit
    \/ InstallHandler
    \/ \E u \in UnitIds : JoinNext(u)
    \/ JoinDone
    \/ MainExit
    \/ \E u \in UnitIds : UnitWake(u)
    \/ \E u \in UnitIds : UnitPoll(u)

FairSpec == Spec /\ WF_vars(Progress)

-----------------------------------------------------------------------------
(* Vocabulary of the properties                                            *)

\* run_all or build_all has returned to main.
BatchReturned == batch # "none" /\ pcMain \in {"returned", "exited"}

Launched == 1..Len(units)

\* The group the subcommand names, read from the loaded document.
SelectedGroup ==
    IF command \in {"Run", "R"} THEN runner.tasks ELSE runner.builds

OtherGroup ==
    IF command \in {"Run", "R"} THEN runner.builds ELSE runner.tasks

\* The executor was invoked for the unit and could not start a subshell.
SpawnFailed(un) == un.st \in Terminal /\ un.st # "Cancelled" /\ un.spawns < 2

TasksOf(us) == [i \in 1..Len(us) |-> us[i].task]

-----------------------------------------------------------------------------
\* C1: whenever the batch call has returned, every unit it launched is in a
\* terminal state: none is still pending (sleeping) or racing.
StructuredJoin ==
    BatchReturned => \A u \in Launched : units[u].st \in Terminal

\* A returned batch of two units, one cancelled and one that reported.
StructuredJoinWitness ==
    /\ BatchReturned
    /\ Len(units) = 2
    /\ units[1].st = "Cancelled"
    /\ units[2].st \in {"Succeeded", "Failed"}

\* C2: a batch that returned without the cancellation signal having been
\* triggered produced one outcome per task of the group, Succeeded when the
\* command exited with success and Failed otherwise; no unit ended without an
\* outcome and none ended Cancelled.
FanOutCompleteness ==
    (BatchReturned /\ ~interrupted) =>
        /\ Len(units) = Len(SelectedGroup.items)
        /\ \A u \in Launched :
              /\ units[u].reports = 1
              /\ units[u].proc = "exited"
              /\ units[u].st = IF ExitStatus(units[u].task.cmd) = 0
                               THEN "Succeeded" ELSE "Failed"

\* C7: a unit whose executor could not start the subshell, or whose subshell
\* exited non-zero and was reported, has the outcome Failed.
ExecutorFailureContained ==
    \A u \in Launched :
        \/ SpawnFailed(units[u])
        \/ /\ units[u].st \in {"Succeeded", "Failed"}
           /\ ExitStatus(units[u].task.cmd) # 0
        => units[u].st = "Failed" /\ units[u].reports = 1

\* C3 as claimed, for the units whose command was started before the signal
\* was set: when such a unit leaves its race with the signal set, it ends
\* Cancelled if its command has not completed, and it keeps the Succeeded or
\* Failed of its command if the command has exited; a unit whose command has
\* exited is never reported Cancelled.
CancellationBroadcast ==
    [][\A u \in Launched :
          (token /\ units[u].st = "Running" /\ units'[u].st # "Running") =>
              /\ units[u].proc = "running" => units'[u].st = "Cancelled"
              /\ units[u].proc = "exited" =>
                    units'[u].st \in {"Succeeded", "Failed"}]_vars

\* C3 as amended: a unit that has reached a terminal state keeps it, whatever
\* happens to the signal afterwards; an outcome of Succeeded or Failed is the
\* exit status of a command that did exit, and Cancelled is reported only
\* after an interrupt; with the signal set, a unit whose command is still
\* running when its race is polled ends Cancelled, and a unit whose command
\* has exited ends either Cancelled or with the outcome of its exit status.
CancellationBroadcastAmended ==
    /\ [](\A u \in Launched :
             /\ units[u].st \in {"Succeeded", "Failed"} =>
                   /\ units[u].proc = "exited"
                   /\ units[u].st = IF ExitStatus(units[u].task.cmd) = 0
                                    THEN "Succeeded" ELSE "Failed"
             /\ units[u].st = "Cancelled" =>
                   interrupted /\ units[u].proc # "running")
    /\ [][\A u \in Launched :
             /\ units[u].st \in Terminal => units'[u] = units[u]
             /\ (token /\ units[u].st = "Running" /\ units'[u].st # "Running") =>
                   /\ units[u].proc = "running" => units'[u].st = "Cancelled"
                   /\ units[u].proc = "exited" =>
                         units'[u].st \in {"Cancelled", "Succeeded", "Failed"}]_vars

\* The signal was set while one command was in flight and after another had
\* exited unobserved: the first unit ended Cancelled with its subshell killed,
\* the second ended Cancelled although its command had exited.
CancellationBroadcastWitness ==
    /\ interrupted
    /\ Len(units) = 2
    /\ units[1].st = "Cancelled" /\ units[1].proc = "killed"
    /\ units[2].st = "Cancelled" /\ units[2].proc = "exited"

\* C4: a unit moves only along Pending -> Running -> {Succeeded, Failed,
\* Cancelled}; it reports at most one outcome and, once it has one, nothing
\* changes it.
TerminalOnce ==
    [][\A u \in Launched :
          /\ units[u].st = "Pending" => units'[u].st \in {"Pending", "Running"}
          /\ units[u].st = "Running" => units'[u].st \in {"Running"} \cup Outcomes
          /\ units[u].st \in Outcomes => units'[u] = units[u]
          /\ units'[u].reports <= 1
          /\ units'[u].reports = 1 <=> units'[u].st \in Outcomes]_vars

\* C5: the step in which a unit ends Failed changes no other unit, does not
\* touch the signal and does not move the batch call; a returned batch has left
\* no unit behind; and in a batch that returned without an interrupt every
\* command that exited has the outcome of its own exit status, Failed for
\* `false` and Succeeded for `true`, whatever its siblings did.
Independence ==
    /\ [](BatchReturned =>
             /\ \A u \in Launched : units[u].st # "Failed" \/
                   \A v \in Launched : units[v].st \notin {"Pending", "Running"}
             /\ interrupted \/
                   \A u \in Launched : units[u].proc = "exited" =>
                      /\ units[u].task.cmd = "false" => units[u].st = "Failed"
                      /\ units[u].task.cmd = "true" => units[u].st = "Succeeded")
    /\ [][\A u \in Launched :
             (units[u].st # "Failed" /\ units'[u].st = "Failed") =>
                 /\ \A v \in Launched \ {u} : units'[v] = units[v]
                 /\ token' = token
                 /\ pcMain' = pcMain
                 /\ set' = set]_vars

\* Scenario A: the run group [a: true, b: false] ran to the end without an
\* interrupt.
IndependenceWitness ==
    /\ BatchReturned
    /\ ~interrupted
    /\ Len(units) = 2
    /\ units[1].task.cmd = "true" /\ units[1].st = "Succeeded"
    /\ units[2].task.cmd = "false" /\ units[2].st = "Failed"

\* C6: once the cancellation signal is set, the batch call eventually returns
\* with every unit terminal, whether or not the commands still running ever
\* exit (no fairness is assumed of ProcExit).
CancelCompletes ==
    token ~> (BatchReturned /\ \A u \in Launched : units[u].st \in Terminal)

\* A batch that returned after an interrupt, with a unit whose command never
\* finished.
CancelCompletesWitness ==
    /\ BatchReturned
    /\ interrupted
    /\ \E u \in Launched : units[u].st = "Cancelled" /\ units[u].proc = "killed"

\* C8: a batch over an absent or empty group launches no unit, produces no
\* outcome and its join loop has nothing to wait for.
EmptyBatch ==
    (batch # "none" /\ (~SelectedGroup.some \/ SelectedGroup.items = <<>>)) =>
        /\ units = <<>>
        /\ set = {}
        /\ \A u \in UnitIds : ~ENABLED JoinNext(u)
        /\ pcMain = "join" => ENABLED JoinDone

\* A batch over an absent group returned although the other group has tasks.
EmptyBatchWitness ==
    /\ BatchReturned
    /\ ~SelectedGroup.some
    /\ OtherGroup.items # <<>>
    /\ units = <<>>

\* C9: when runner.json is missing or malformed no batch is attempted: no unit
\* is launched, no handler is installed, and the process goes from its start
\* straight to its exit (unless an interrupt ends it first).
LoadFailureSilent ==
    file.state # "ok" =>
        /\ ~runner.loaded
        /\ batch = "none"
        /\ units = <<>>
        /\ set = {}
        /\ handlers = 0
        /\ ~token
        /\ pcMain \in {"start", "exited", "killed"}

\* The run subcommand on a missing file: the process has exited.
LoadFailureSilentWitness ==
    /\ file.state = "missing"
    /\ command = "Run"
    /\ pcMain = "exited"

\* C10: the units of a batch are the tasks of the group its subcommand names,
\* in order and one each, and never a task of the other group: a prefix of the
\* group while the fan-out runs, the whole group from the join on.
GroupsNeverMixed ==
    batch # "none" =>
        /\ batch = IF command \in {"Run", "R"} THEN "run" ELSE "build"
        /\ Len(units) <= Len(SelectedGroup.items)
        /\ TasksOf(units) = SubSeq(SelectedGroup.items, 1, Len(units))
        /\ pcMain \in {"join", "returned", "exited"} =>
              Len(units) = Len(SelectedGroup.items)

\* The alias ran a run group of two tasks of the same name while the build
\* group holds a task.
GroupsNeverMixedWitness ==
    /\ BatchReturned
    /\ command = "R"
    /\ Len(units) = 2
    /\ units[1].task.name = units[2].task.name
    /\ runner.builds.items # <<>>

\* C11 as claimed: a unit that begins its race with the signal already set
\* ends Cancelled at that poll and no subshell is started for it.
NoStartAfterCancel ==
    [][\A u \in Launched :
          (token /\ units[u].st = "Running" /\ units[u].spawns = 0
                 /\ units'[u] # units[u]) =>
              /\ units'[u].st = "Cancelled"
              /\ units'[u].spawns = 0]_vars

\* C11 as amended: a unit that begins its race with the signal already set
\* leaves the race at that very poll.  When select! polls the cancellation arm
\* first it ends Cancelled without any subshell started; when it polls
\* run_task_inner first the subshells are started before the signal is seen,
\* and the unit ends Cancelled with the awaited subshell killed, or with the
\* outcome of a subshell that had already exited, or by the panic of a failed
\* start.  A unit that has ended never starts a subshell afterwards.
NoStartAfterCancelAmended ==
    [][\A u \in Launched :
          /\ (token /\ units[u].st = "Running" /\ units[u].spawns = 0
                    /\ units'[u] # units[u]) =>
                \/ /\ units'[u].st = "Cancelled"
                   /\ units'[u].spawns = 0
                   /\ units'[u].proc = "none"
                \/ /\ units'[u].st = "Cancelled"
                   /\ units'[u].spawns = 2
                   /\ units'[u].proc = "killed"
                \/ /\ units'[u].st \in {"Succeeded", "Failed"}
                   /\ units'[u].spawns = 2
                   /\ units'[u].proc = "exited"
                \/ /\ units'[u].st = "Panicked"
                   /\ units'[u].spawns < 2
                   /\ units'[u].proc = "none"
          /\ units[u].st \in Terminal => units'[u].spawns = units[u].spawns]_vars

\* Both ways a unit that met the signal at the start of its race ended
\* Cancelled: without a subshell, and with its subshells started and killed.
NoStartAfterCancelWitness ==
    /\ interrupted
    /\ Len(units) = 2
    /\ units[1].st = "Cancelled" /\ units[1].spawns = 0
    /\ units[2].st = "Cancelled" /\ units[2].spawns = 2 /\ units[2].proc = "killed"

\* A batch is running: its first unit is launched and some unit has not ended.
BatchRunning ==
    /\ batch # "none"
    /\ Alive
    /\ \E u \in Launched : units[u].st \notin Terminal

\* C12: an interrupt that arrives while a batch is running sets the batch's
\* cancellation signal.
InterruptReachesSignal ==
    [][((InterruptDefault \/ InterruptHandled) /\ BatchRunning) => token']_vars

\* C13: the signal is set while a unit has not ended only if an interrupt was
\* handled; the engine's own cancel happens with the JoinSet empty and every
\* unit ended, and changes no unit.
NoSelfCancel ==
    /\ []((token /\ \E u \in Launched : units[u].st \notin Terminal) => interrupted)
    /\ [][JoinDone =>
             /\ set = {}
             /\ \A u \in Launched : units[u].st \in Terminal
             /\ units' = units]_vars

\* The engine's own cancel has run on a batch of units that no interrupt
\* reached: the signal is set and every unit kept the outcome of its command.
NoSelfCancelWitness ==
    /\ pcMain = "returned"
    /\ token
    /\ ~interrupted
    /\ Len(units) = 2
    /\ \A u \in Launched : units[u].st \in {"Succeeded", "Failed"}

\* C14: units are launched one per task in the order of the group; while the
\* fan-out runs the next launch is always possible, whatever the units already
\* launched are doing, and no unit has been joined; a unit is joined only when
\* the whole group has been launched.
FullFanOut ==
    /\ [](batch # "none" =>
             /\ \A i \in Launched : units[i].task = SelectedGroup.items[i]
             /\ pcMain = "fanout" =>
                   /\ next = Len(units) + 1
                   /\ set = Launched
                   /\ Len(units) < Len(SelectedGroup.items) => ENABLED SpawnUnit
             /\ set # Launched => Len(units) = Len(SelectedGroup.items))
    /\ [][/\ (\E u \in UnitIds : JoinNext(u)) =>
                Len(units) = Len(SelectedGroup.items)
          /\ SpawnUnit =>
                /\ Len(units') = Len(units) + 1
                /\ \A i \in Launched : units'[i] = units[i]
                /\ units'[Len(units')].st = "Pending"]_vars

\* Two different tasks are launched, in order, the join has not taken any, and
\* the first unit had not even begun its race when the second was launched.
FullFanOutWitness ==
    /\ pcMain = "join"
    /\ Len(units) = 2
    /\ units[1].task # units[2].task
    /\ units[1].st = "Pending"
    /\ units[2].st = "Pending"
    /\ set = {1, 2}

\* C15: the signal, once set, stays set; it is changed only by the interrupt
\* handler and by the batch call after its join; no step of a unit (the end of
\* its sleep, a poll of its race, the exit of its subshell) changes it.
LevelTriggered ==
    [][/\ token => token'
       /\ token' # token => (InterruptHandled \/ JoinDone)
       /\ (\E u \in UnitIds : UnitWake(u) \/ UnitPoll(u) \/ ProcExit(u)) =>
             token' = token]_vars

\* After an interrupt two units have each observed the signal and ended
\* Cancelled, and the signal is still set while the join goes on.
LevelTriggeredWitness ==
    /\ pcMain = "join"
    /\ interrupted
    /\ token
    /\ Len(units) = 2
    /\ units[1].st = "Cancelled"
    /\ units[2].st = "Cancelled"

\* C16 as claimed: when the cancellation arm wins for a unit whose subshell is
\* running, the subshell is still running after that step.
CancelLeavesCommand ==
    [][\A u \in Launched :
          (units[u].st = "Running" /\ units'[u].st = "Cancelled"
              /\ units[u].proc = "running") =>
              units'[u].proc = "running"]_vars

\* C16 as amended: when the cancellation arm wins, the unit is marked
\* Cancelled and the subshell it awaits, if still running, is killed by the
\* drop of the executor's future; a subshell that has exited stays exited; no
\* unit that has ended leaves a running subshell behind.
CancelKillsCommand ==
    /\ [](\A u \in Launched :
             units[u].st \in Terminal => units[u].proc # "running")
    /\ [][\A u \in Launched :
             (units[u].st = "Running" /\ units'[u].st = "Cancelled") =>
                 /\ units[u].proc = "running" => units'[u].proc = "killed"
                 /\ units[u].proc = "exited" => units'[u].proc = "exited"
                 /\ units[u].proc = "none" => units'[u].proc \in {"none", "killed"}]_vars

\* The join is still going on and a unit has ended Cancelled with the subshell
\* it was awaiting killed.
CancelKillsCommandWitness ==
    /\ pcMain = "join"
    /\ \E u \in Launched :
          /\ units[u].st = "Cancelled"
          /\ units[u].spawns = 2
          /\ units[u].proc = "killed"

\* C17: a unit sleeps once and races once (it never goes back to its sleep and
\* never leaves a terminal state), and at most one subshell is started for its
\* task in the batch.
SingleExecution ==
    /\ [](\A u \in Launched : units[u].spawns <= 1)
    /\ [][\A u \in Launched :
             /\ units[u].st # "Pending" => units'[u].st # "Pending"
             /\ units[u].st \in Terminal => units'[u] = units[u]]_vars

\* C18: at most one handler installation per process; it is made by the one
\* batch main dispatches, also when the group is empty, once all units are
\* launched and before any unit is joined.
OneHandler ==
    /\ [](/\ handlers <= 1
          /\ handlers = 1 <=> (batch # "none" /\ pcMain \in {"join", "returned", "exited"})
          /\ handlers = 1 => Len(units) = Len(SelectedGroup.items)
          /\ handlers = 0 => set = Launched)
    /\ [][/\ DispatchBatch => (batch = "none" /\ handlers = 0)
          /\ batch # "none" => batch' = batch
          /\ handlers' # handlers => (InstallHandler /\ set = Launched)]_vars

\* A batch over an empty array has installed its handler and reached the join.
OneHandlerWitness ==
    /\ pcMain = "join"
    /\ handlers = 1
    /\ SelectedGroup.some
    /\ units = <<>>

=============================================================================
